---- MODULE Spec2Model ----
(***************************************************************************)
(* Model of the two utilities of the repository:                           *)
(*   Task 1/src/gcd.rs        calculate_gcd, calculate_gcd_array           *)
(*   Task 2/src/address.rs    CodeAndName, LineDetail, Address             *)
(*   Task 2/src/addresses.rs  Addresses                                    *)
(* A Rust String or &str is the sequence of the Unicode scalar values of    *)
(* its characters; Str("...") is the string of an ASCII literal.  An i32   *)
(* is an integer in I32Min..I32Max.                                        *)
(***************************************************************************)
EXTENDS Integers, Sequences, FiniteSets, TLC

VARIABLES ints, gcall, addresses, acall, stdout

vars == <<ints, gcall, addresses, acall, stdout>>

(***************************************************************************)
(* Bounds of the model.                                                    *)
(***************************************************************************)
MaxLen == 3
MaxMag == 5
MaxPostalLen == 2
MaxAddrs == 3
MaxPrints == 1

\* All sequences over S of length at most n.
RECURSIVE SeqsUpTo(_, _)
SeqsUpTo(S, n) ==
    IF n = 0 THEN {<<>>}
    ELSE LET shorter == SeqsUpTo(S, n - 1)
         IN  shorter \cup {Append(s, x) : s \in {t \in shorter : Len(t) = n - 1}, x \in S}

(***************************************************************************)
(* Task 1: gcd.rs                                                          *)
(***************************************************************************)
I32Max == 2147483647
I32Min == -2147483647 - 1

\* The i32 values the arrays are drawn from: the small magnitudes and the
\* two ends of the type.
GcdVals == ((-MaxMag)..MaxMag) \cup {I32Min, I32Max}

Ok(v) == [tag |-> "Ok", val |-> v]
Panic == [tag |-> "Panic", val |-> 0]
Some(v) == [tag |-> "Some", val |-> v]
None == [tag |-> "None", val |-> 0]

\* Rust's a % b on i32 traps when b = 0 and when a = i32::MIN and b = -1.
RemTraps(a, b) == b = 0 \/ (a = I32Min /\ b = -1)

\* Rust's a % b on i32 where it does not trap: the remainder of the
\* truncated division, which has the sign of a.
RustRem(a, b) ==
    IF b = I32Min THEN (IF a = I32Min THEN 0 ELSE a)
    ELSE LET m == IF b < 0 THEN -b ELSE b
             r == a % m
         IN  IF a >= 0 \/ r = 0 THEN r ELSE r - m

\* while b != 0 { (b, a) = (a % b, b); }  a
RECURSIVE gcd_loop(_, _)
gcd_loop(a, b) ==
    IF b = 0 THEN Ok(a)
    ELSE IF RemTraps(a, b) THEN Panic
    ELSE gcd_loop(b, RustRem(a, b))

\* The loop body run at most once: `if` in the place of `while`.
calculate_gcd_once(a, b) ==
    LET a1 == IF a < b THEN b ELSE a
        b1 == IF a < b THEN a ELSE b
    IN  IF b1 = 0 THEN Ok(a1)
        ELSE IF RemTraps(a1, b1) THEN Panic
        ELSE Ok(b1)

calculate_gcd(a, b) ==
    LET a1 == IF a < b THEN b ELSE a
        b1 == IF a < b THEN a ELSE b
    IN  gcd_loop(a1, b1)

\* for i in ints { res = calculate_gcd(res, *i); } from position k on.
RECURSIVE gcd_fold(_, _, _)
gcd_fold(res, xs, k) ==
    IF k > Len(xs) THEN Some(res)
    ELSE LET r == calculate_gcd(res, xs[k])
         IN  IF r.tag = "Panic" THEN Panic ELSE gcd_fold(r.val, xs, k + 1)

\* The fold stops one element early.
calculate_gcd_array_short(xs) ==
    IF xs = <<>> THEN None
    ELSE gcd_fold(xs[1], SubSeq(xs, 1, Len(xs) - 1), 1)

calculate_gcd_array(xs) ==
    IF xs = <<>> THEN None
    ELSE gcd_fold(xs[1], xs, 1)

NoGCall == [op |-> "none", a |-> 0, b |-> 0, ret |-> None]

InitGcd ==
    /\ ints \in SeqsUpTo(GcdVals, MaxLen)
    /\ gcall = NoGCall
    /\ addresses = <<>>
    /\ acall = [op |-> "none", arg |-> 0]
    /\ stdout = <<>>

\* A caller runs calculate_gcd_array on the array.
CallGcdArray ==
    /\ gcall' = [op |-> "calculate_gcd_array", a |-> 0, b |-> 0,
                 ret |-> calculate_gcd_array(ints)]
    /\ UNCHANGED <<ints, addresses, acall, stdout>>

\* A caller runs calculate_gcd on two values of the array.
CallGcd ==
    \E i \in DOMAIN ints, j \in DOMAIN ints :
        /\ gcall' = [op |-> "calculate_gcd", a |-> ints[i], b |-> ints[j],
                     ret |-> calculate_gcd(ints[i], ints[j])]
        /\ UNCHANGED <<ints, addresses, acall, stdout>>

NextGcd == CallGcdArray \/ CallGcd

SpecGcd == InitGcd /\ [][NextGcd]_vars

(***************************************************************************)
(* Task 2: address.rs                                                      *)
(***************************************************************************)
\* The ranges of the general category Nd (decimal digit) of Unicode 16, the
\* class \d of the regex crate: ASCII 0-9 first, then the digits of the other
\* scripts.
NdRanges ==
    { <<48, 57>>, <<1632, 1641>>, <<1776, 1785>>, <<1984, 1993>>,
      <<2406, 2415>>, <<2534, 2543>>, <<2662, 2671>>, <<2790, 2799>>,
      <<2918, 2927>>, <<3046, 3055>>, <<3174, 3183>>, <<3302, 3311>>,
      <<3430, 3439>>, <<3558, 3567>>, <<3664, 3673>>, <<3792, 3801>>,
      <<3872, 3881>>, <<4160, 4169>>, <<4240, 4249>>, <<6112, 6121>>,
      <<6160, 6169>>, <<6470, 6479>>, <<6608, 6617>>, <<6784, 6793>>,
      <<6800, 6809>>, <<6992, 7001>>, <<7088, 7097>>, <<7232, 7241>>,
      <<7248, 7257>>, <<42528, 42537>>, <<43216, 43225>>, <<43264, 43273>>,
      <<43472, 43481>>, <<43504, 43513>>, <<43600, 43609>>, <<44016, 44025>>,
      <<65296, 65305>>, <<66720, 66729>>, <<68912, 68921>>, <<68928, 68937>>,
      <<69734, 69743>>, <<69872, 69881>>, <<69942, 69951>>, <<70096, 70105>>,
      <<70384, 70393>>, <<70736, 70745>>, <<70864, 70873>>, <<71248, 71257>>,
      <<71360, 71369>>, <<71376, 71395>>, <<71472, 71481>>, <<71904, 71913>>,
      <<72016, 72025>>, <<72688, 72697>>, <<72784, 72793>>, <<73040, 73049>>,
      <<73120, 73129>>, <<73552, 73561>>, <<90416, 90425>>, <<92768, 92777>>,
      <<92864, 92873>>, <<93008, 93017>>, <<93552, 93561>>, <<118000, 118009>>,
      <<120782, 120831>>, <<123200, 123209>>, <<123632, 123641>>, <<124144, 124153>>,
      <<124401, 124410>>, <<125264, 125273>>, <<130032, 130041>> }

\* \d matches the character c.
Digits(c) == \E r \in NdRanges : r[1] <= c /\ c <= r[2]

\* The characters the postal codes of the model are drawn from: '1', the
\* Arabic-Indic digit three (U+0663), 'a' and a line feed.
PostalChars == {49, 1635, 97, 10}

\* The printable ASCII characters in the order of their scalar values, from
\* the space (32) to the tilde (126); the place of the grave accent (96),
\* which no literal of the module holds, is left empty.
AsciiPrintable ==
    << " ", "!", "\"", "#", "$", "%", "&", "'", "(", ")", "*", "+",
       ",", "-", ".", "/", "0", "1", "2", "3", "4", "5", "6", "7",
       "8", "9", ":", ";", "<", "=", ">", "?", "@", "A", "B", "C",
       "D", "E", "F", "G", "H", "I", "J", "K", "L", "M", "N", "O",
       "P", "Q", "R", "S", "T", "U", "V", "W", "X", "Y", "Z", "[",
       "\\", "]", "^", "_", "", "a", "b", "c", "d", "e", "f", "g",
       "h", "i", "j", "k", "l", "m", "n", "o", "p", "q", "r", "s",
       "t", "u", "v", "w", "x", "y", "z", "{", "|", "}", "~" >>

\* The Rust string of the literal t: the sequence of the scalar values of its
\* characters.
RECURSIVE Str(_)
Str(t) ==
    IF Len(t) = 0 THEN <<>>
    ELSE LET c == SubSeq(t, 1, 1)
             v == IF c = "\n" THEN 10
                  ELSE 31 + (CHOOSE k \in DOMAIN AsciiPrintable : AsciiPrintable[k] = c)
         IN  <<v>> \o Str(SubSeq(t, 2, Len(t)))

NOT_AVAILABLE == Str("Not available")

\* The literals of the code's match arms and format strings.
ZA == Str("ZA")
COMMA_SPACE == Str(", ")
COLON_SPACE == Str(": ")
SPACE == Str(" ")
DASH_SPACE == Str("- ")
QUOTE == Str("\"")
OPEN_BRACKET == Str("[")
CLOSE_BRACKET == Str("]")
ENTRY_ID == Str("Address for ID: ")
ENTRY_ERRORS == Str(" is invalid. Validation errors: ")

\* The lastUpdated of every address of the model.
LAST_UPDATED == Str("2015-06-21T00:00:00.000Z")

MSG_PROVINCE == Str("You must include a province if your country is ZA")
MSG_COUNTRY == Str("You must include a country")
MSG_LINE_DETAIL == Str("You must include valid address details (line 1 and/or 2 must be filled in)")
MSG_POSTAL_CODE == Str("You must include a valid postal code")

\* struct CodeAndName, struct LineDetail, struct Address.
CodeAndName(code, name) == [code |-> code, name |-> name]

LineDetail(line1, line2) == [line1 |-> line1, line2 |-> line2]

Address(id, type, ld, province, country, city, postal) ==
    [id |-> id, address_type |-> type, line_detail |-> ld,
     province_or_state |-> province, country |-> country,
     city_or_town |-> city, postal_code |-> postal,
     suburb_or_district |-> <<>>, last_updated |-> LAST_UPDATED]

\* Country::is_valid_country
is_valid_country(c) == c.name # <<>>

\* The two single-line arms exchanged.
LineDetail_fmt_swapped(ld) ==
    LET ml1 == ld.line1 = <<>>
        ml2 == ld.line2 = <<>>
    IN  IF ml1 /\ ml2 THEN NOT_AVAILABLE
        ELSE IF ml1 THEN ld.line1
        ELSE IF ml2 THEN ld.line2
        ELSE ld.line1 \o COMMA_SPACE \o ld.line2

\* impl Display for LineDetail
LineDetail_fmt(ld) ==
    LET ml1 == ld.line1 = <<>>
        ml2 == ld.line2 = <<>>
    IN  IF ml1 /\ ml2 THEN NOT_AVAILABLE
        ELSE IF ml1 THEN ld.line2
        ELSE IF ml2 THEN ld.line1
        ELSE ld.line1 \o COMMA_SPACE \o ld.line2

\* LineDetail::is_valid_line_detail
is_valid_line_detail(ld) == ld.line1 # <<>> \/ ld.line2 # <<>>

\* The province code tested in the place of the province name.
has_valid_province_by_code(a) ==
    IF a.country.code = ZA THEN a.province_or_state.code # <<>> ELSE TRUE

\* Address::has_valid_province
has_valid_province(a) ==
    IF a.country.code = ZA THEN a.province_or_state.name # <<>> ELSE TRUE

\* Address::str_or
str_or(s, default) == IF s = <<>> THEN default ELSE s

\* The regex ^\d+$ on the characters of s from position k on, after at least
\* one digit has matched when seen is TRUE: \d+ takes a digit, $ matches at
\* the end of the text only.
RECURSIVE MatchDigits(_, _, _)
MatchDigits(s, k, seen) ==
    IF k > Len(s) THEN seen
    ELSE IF Digits(s[k]) THEN MatchDigits(s, k + 1, TRUE)
    ELSE FALSE

\* The regex without its anchors, \d+ : some character is a digit.
is_valid_postal_code_unanchored(s) == \E k \in DOMAIN s : Digits(s[k])

\* Address::is_valid_postal_code
is_valid_postal_code(s) == MatchDigits(s, 1, FALSE)

\* The checks chained with else: only the first failure is reported.
validate_first_failure(a) ==
    IF ~has_valid_province(a) THEN <<MSG_PROVINCE>>
    ELSE IF ~is_valid_country(a.country) THEN <<MSG_COUNTRY>>
    ELSE IF ~is_valid_line_detail(a.line_detail) THEN <<MSG_LINE_DETAIL>>
    ELSE IF ~is_valid_postal_code(a.postal_code) THEN <<MSG_POSTAL_CODE>>
    ELSE <<>>

\* Address::validate
validate(a) ==
    LET e0 == <<>>
        e1 == IF ~has_valid_province(a) THEN Append(e0, MSG_PROVINCE) ELSE e0
        e2 == IF ~is_valid_country(a.country) THEN Append(e1, MSG_COUNTRY) ELSE e1
        e3 == IF ~is_valid_line_detail(a.line_detail)
              THEN Append(e2, MSG_LINE_DETAIL) ELSE e2
        e4 == IF ~is_valid_postal_code(a.postal_code)
              THEN Append(e3, MSG_POSTAL_CODE) ELSE e3
    IN  e4

\* The conjunction without the postal code check.
is_valid_without_postal_code(a) ==
    /\ has_valid_province(a)
    /\ is_valid_country(a.country)
    /\ is_valid_line_detail(a.line_detail)

\* Address::is_valid
is_valid(a) ==
    /\ has_valid_province(a)
    /\ is_valid_country(a.country)
    /\ is_valid_line_detail(a.line_detail)
    /\ is_valid_postal_code(a.postal_code)

\* impl Display for Address
Address_fmt(a) ==
    (a.address_type.name \o COLON_SPACE)
        \o (LineDetail_fmt(a.line_detail) \o SPACE)
        \o (DASH_SPACE \o str_or(a.city_or_town, NOT_AVAILABLE) \o SPACE)
        \o (DASH_SPACE \o str_or(a.province_or_state.name, NOT_AVAILABLE) \o SPACE)
        \o (DASH_SPACE \o str_or(a.postal_code, NOT_AVAILABLE) \o SPACE)
        \o (DASH_SPACE \o str_or(a.country.name, NOT_AVAILABLE))

(***************************************************************************)
(* Task 2: addresses.rs                                                    *)
(***************************************************************************)
\* The values of type ValidationError the code constructs: the four literals
\* validate pushes.
ValidationError == {MSG_PROVINCE, MSG_COUNTRY, MSG_LINE_DETAIL, MSG_POSTAL_CODE}

\* {:?} of a ValidationError: the text between double quotes.  None of the
\* four literals holds a character {:?} writes as an escape, and no other
\* string is written this way, so the rendering is defined for them only.
DebugStr(s) == CASE s \in ValidationError -> QUOTE \o s \o QUOTE

\* {:?} of a Vec<ValidationError>, from position k on.
RECURSIVE DebugItems(_, _)
DebugItems(v, k) ==
    IF k > Len(v) THEN <<>>
    ELSE (IF k > 1 THEN COMMA_SPACE ELSE <<>>) \o DebugStr(v[k]) \o DebugItems(v, k + 1)

DebugVec(v) == OPEN_BRACKET \o DebugItems(v, 1) \o CLOSE_BRACKET

\* The closure of validate_addresses run on the addresses from position k
\* on, with err_strings what was pushed before.
RECURSIVE validate_each(_, _, _)
validate_each(addrs, k, err_strings) ==
    IF k > Len(addrs) THEN err_strings
    ELSE LET errs == validate(addrs[k])
         IN  IF errs # <<>>
             THEN validate_each(addrs, k + 1,
                      Append(err_strings,
                          ENTRY_ID \o addrs[k].id
                              \o ENTRY_ERRORS \o DebugVec(errs)))
             ELSE validate_each(addrs, k + 1, err_strings)

\* An entry pushed for every address, without the test of errs.is_empty().
validate_addresses_unfiltered(addrs) ==
    [k \in DOMAIN addrs |->
        ENTRY_ID \o addrs[k].id
            \o ENTRY_ERRORS \o DebugVec(validate(addrs[k]))]

\* Addresses::validate_addresses
validate_addresses(addrs) == validate_each(addrs, 1, <<>>)

\* The lines Addresses::pretty_print_addresses writes to standard output.
pretty_print_addresses(addrs) == [k \in DOMAIN addrs |-> Address_fmt(addrs[k])]

(***************************************************************************)
(* The addresses a collection is loaded with.                              *)
(***************************************************************************)
PostalCodes == SeqsUpTo(PostalChars, MaxPostalLen)

\* The addresses that differ in the fields validation reads: every
\* combination of empty and filled line, province and country fields, with
\* each postal code.
ValidationAddresses ==
    { Address(Str("1"), CodeAndName(Str("1"), Str("Physical Address")), LineDetail(l1, l2),
              CodeAndName(pc, pn), CodeAndName(cc, cn), Str("City 1"), postal) :
        l1 \in {<<>>, Str("Address 1")},
        l2 \in {<<>>, Str("Line 2")},
        pc \in {<<>>, Str("5")},
        pn \in {<<>>, Str("Eastern Cape")},
        cc \in {<<>>, Str("ZA"), Str("LB")},
        cn \in {<<>>, Str("South Africa")},
        postal \in PostalCodes }

\* The addresses that differ in the fields Display writes: every combination
\* of empty and filled fields, with the postal codes of at most one character.
DisplayAddresses ==
    { Address(Str("1"), CodeAndName(Str("1"), tn), LineDetail(l1, l2),
              CodeAndName(Str("5"), pn), CodeAndName(Str("ZA"), cn), city, postal) :
        tn \in {<<>>, Str("Physical Address")},
        l1 \in {<<>>, Str("Address 1"), NOT_AVAILABLE},
        l2 \in {<<>>, Str("Line 2")},
        pn \in {<<>>, Str("Eastern Cape")},
        cn \in {<<>>, Str("South Africa")},
        city \in {<<>>, Str("City 1")},
        postal \in {c \in PostalCodes : Len(c) <= 1} }

AllAddresses == ValidationAddresses \cup DisplayAddresses

\* The addresses of the collections of more than one address: the three of
\* the tests' fixture (a valid one with postal code 1234, one without line
\* detail with 2345, a ZA one without province with 3456) and one with neither
\* country nor numeric postal code (a2c4).
Pool ==
    { Address(Str("1"), CodeAndName(Str("1"), Str("Physical Address")),
              LineDetail(Str("Address 1"), Str("Line 2")),
              CodeAndName(Str("5"), Str("Eastern Cape")),
              CodeAndName(Str("ZA"), Str("South Africa")), Str("City 1"), <<49, 50, 51, 52>>),
      Address(Str("2"), CodeAndName(Str("2"), Str("Postal Address")),
              LineDetail(<<>>, <<>>), CodeAndName(<<>>, <<>>),
              CodeAndName(Str("LB"), Str("Lebanon")), Str("City 2"), <<50, 51, 52, 53>>),
      Address(Str("3"), CodeAndName(Str("5"), Str("Business Address")),
              LineDetail(Str("Address 3"), <<>>), CodeAndName(<<>>, <<>>),
              CodeAndName(Str("ZA"), Str("South Africa")), Str("City 3"), <<51, 52, 53, 54>>),
      Address(Str("4"), CodeAndName(Str("1"), Str("Physical Address")),
              LineDetail(<<>>, Str("Line 2")), CodeAndName(<<>>, <<>>),
              CodeAndName(<<>>, <<>>), <<>>, <<97, 50, 99, 52>>) }

NoACall == [op |-> "none", arg |-> 0]

Init ==
    /\ addresses \in {<<a>> : a \in AllAddresses} \cup SeqsUpTo(Pool, MaxAddrs)
    /\ acall = NoACall
    /\ stdout = <<>>
    /\ ints = <<>>
    /\ gcall = NoGCall

Called(op, i, ret) ==
    /\ acall' = [op |-> op, arg |-> i, ret |-> ret]
    /\ UNCHANGED <<addresses, stdout, ints, gcall>>

CallValidate ==
    \E i \in DOMAIN addresses : Called("validate", i, validate(addresses[i]))

CallIsValid ==
    \E i \in DOMAIN addresses : Called("is_valid", i, is_valid(addresses[i]))

CallHasValidProvince ==
    \E i \in DOMAIN addresses :
        Called("has_valid_province", i, has_valid_province(addresses[i]))

CallIsValidPostalCode ==
    \E i \in DOMAIN addresses :
        Called("is_valid_postal_code", i, is_valid_postal_code(addresses[i].postal_code))

CallIsValidLineDetail ==
    \E i \in DOMAIN addresses :
        Called("is_valid_line_detail", i, is_valid_line_detail(addresses[i].line_detail))

CallLineDetailFmt ==
    \E i \in DOMAIN addresses :
        Called("LineDetail_fmt", i, LineDetail_fmt(addresses[i].line_detail))

CallAddressFmt ==
    \E i \in DOMAIN addresses : Called("Address_fmt", i, Address_fmt(addresses[i]))

CallValidateAddresses ==
    /\ acall' = [op |-> "validate_addresses", arg |-> 0,
                 ret |-> validate_addresses(addresses)]
    /\ UNCHANGED <<addresses, stdout, ints, gcall>>

\* pretty_print_addresses, at most MaxPrints times.
CallPrettyPrintAddresses ==
    /\ Len(stdout) + Len(addresses) <= MaxPrints * Len(addresses)
    /\ stdout' = stdout \o pretty_print_addresses(addresses)
    /\ acall' = [op |-> "pretty_print_addresses", arg |-> 0]
    /\ UNCHANGED <<addresses, ints, gcall>>

Next ==
    \/ CallValidate
    \/ CallIsValid
    \/ CallHasValidProvince
    \/ CallIsValidPostalCode
    \/ CallIsValidLineDetail
    \/ CallLineDetailFmt
    \/ CallAddressFmt
    \/ CallValidateAddresses
    \/ CallPrettyPrintAddresses

Spec == Init /\ [][Next]_vars

(***************************************************************************)
(* Properties of Task 1.                                                   *)
(***************************************************************************)
\* The positive i32 values that can divide every element of an array over
\* GcdVals that is not all zero: the small magnitudes, the powers of two
\* (the divisors of i32::MIN) and i32::MAX, which is prime.
Candidates == (1..MaxMag) \cup {2^k : k \in 0..30} \cup {I32Max}

\* d divides x, for d # 0, without leaving the i32 range.
Divides(d, x) ==
    IF d = I32Min THEN x \in {0, I32Min}
    ELSE x % (IF d < 0 THEN -d ELSE d) = 0

Elements(xs) == {xs[k] : k \in DOMAIN xs}

\* g is a common divisor of S that every positive common divisor divides:
\* the magnitude of g is the greatest common divisor of S.
IsGcdUpToSign(g, S) ==
    /\ g # 0
    /\ \A x \in S : Divides(g, x)
    /\ \A d \in Candidates : (\A x \in S : Divides(d, x)) => Divides(d, g)

\* g is the largest integer that divides every element of S.
IsGreatestCommonDivisor(g, S) == g > 0 /\ IsGcdUpToSign(g, S)

AllPositive(S) == \A x \in S : x > 0

\* C5: calculate_gcd_array returns None exactly for the empty array; for a
\* non-empty array of positive values it returns Some(g) with g the greatest
\* common divisor of the elements; calculate_gcd(a, b) of positive a and b
\* is their greatest common divisor in either order of the operands.
C5_GcdOfPositives ==
    /\ gcall.op = "calculate_gcd_array" =>
          /\ (gcall.ret = None) <=> (ints = <<>>)
          /\ (ints # <<>> /\ AllPositive(Elements(ints))) =>
                /\ gcall.ret.tag = "Some"
                /\ IsGreatestCommonDivisor(gcall.ret.val, Elements(ints))
    /\ (gcall.op = "calculate_gcd" /\ gcall.a > 0 /\ gcall.b > 0) =>
          /\ gcall.ret.tag = "Ok"
          /\ IsGreatestCommonDivisor(gcall.ret.val, {gcall.a, gcall.b})
          /\ gcall.ret = calculate_gcd(gcall.b, gcall.a)

\* The fold over three positive values with a non-trivial divisor has run.
C5_Witness ==
    /\ gcall.op = "calculate_gcd_array"
    /\ ints = <<4, 2, 4>>
    /\ gcall.ret = Some(2)

\* C6 as stated: for a non-empty array that is not all zero the returned value
\* is the largest integer that divides every element, hence positive.
C6_ReturnsGreatestDivisor ==
    (gcall.op = "calculate_gcd_array" /\ ints # <<>> /\ Elements(ints) # {0}) =>
        /\ gcall.ret.tag # "None"
        /\ gcall.ret.tag = "Some" =>
              IsGreatestCommonDivisor(gcall.ret.val, Elements(ints))

\* C6 as amended: for a non-empty array that is not all zero, a value that
\* calculate_gcd_array returns is a non-zero common divisor of the elements
\* that every common divisor divides (its magnitude is the greatest common
\* divisor); its sign is not normalised.
C6_GcdUpToSign ==
    (gcall.op = "calculate_gcd_array" /\ ints # <<>> /\ Elements(ints) # {0}) =>
        /\ gcall.ret.tag # "None"
        /\ gcall.ret.tag = "Some" => IsGcdUpToSign(gcall.ret.val, Elements(ints))

\* A negative result for an array of negative values.
C6_Witness ==
    /\ gcall.op = "calculate_gcd_array"
    /\ ints = <<-2, -4>>
    /\ gcall.ret = Some(-2)

\* C7: calculate_gcd_array and calculate_gcd produce a result for every i32
\* input: no remainder step traps.
C7_NoTrap == gcall.ret.tag # "Panic"

(***************************************************************************)
(* Properties of Task 2.                                                   *)
(***************************************************************************)
\* Texts the properties are stated with.
QUOTED_NEXT == Str(", \"")
INVALID_OPEN == Str(" is invalid. Validation errors: [")
SPACE_DASH_SPACE == Str(" - ")
LINE_2 == Str("Line 2")
OtherProvinceCodes == {<<>>, Str("5"), Str("EC")}
OtherCountryNames == {<<>>, Str("South Africa"), Str("ZA")}

Loaded == {addresses[k] : k \in DOMAIN addresses}

\* C1: is_valid() is true exactly when validate() returns no error.
C1_IsValidIffNoErrors ==
    /\ \A a \in Loaded : is_valid(a) <=> (validate(a) = <<>>)
    /\ acall.op = "is_valid" => (acall.ret <=> (validate(addresses[acall.arg]) = <<>>))
    /\ acall.op = "validate" => ((acall.ret = <<>>) <=> is_valid(addresses[acall.arg]))

\* is_valid() answered FALSE for an address whose only failure is the last
\* check, the postal code.
C1_Witness ==
    /\ acall.op = "is_valid"
    /\ acall.ret = FALSE
    /\ validate(addresses[acall.arg]) = <<MSG_POSTAL_CODE>>

\* The entry of validate_addresses for the address a.
EntryOf(a) ==
    LET RECURSIVE Joined(_)
        Joined(v) == IF Len(v) = 1 THEN QUOTE \o v[1] \o QUOTE
                     ELSE Joined(SubSeq(v, 1, Len(v) - 1)) \o QUOTED_NEXT \o v[Len(v)] \o QUOTE
    IN  ENTRY_ID \o a.id \o INVALID_OPEN
            \o Joined(validate(a)) \o CLOSE_BRACKET

\* C2: validate_addresses() returns one entry for each address with errors,
\* in the order of the collection, built from the address's id and messages;
\* an address without errors contributes nothing.
C2_OneEntryPerInvalidAddress ==
    acall.op = "validate_addresses" =>
        LET invalid == SelectSeq(addresses, LAMBDA a : validate(a) # <<>>)
        IN  /\ Len(acall.ret) = Len(invalid)
            /\ \A k \in DOMAIN invalid : acall.ret[k] = EntryOf(invalid[k])
            /\ (\A a \in Loaded : validate(a) = <<>>) => acall.ret = <<>>

\* A valid address between two invalid ones with different identifiers.
C2_Witness ==
    /\ acall.op = "validate_addresses"
    /\ Len(addresses) = 3
    /\ validate(addresses[1]) # <<>>
    /\ validate(addresses[2]) = <<>>
    /\ Len(validate(addresses[3])) = 2
    /\ addresses[1].id # addresses[3].id
    /\ Len(acall.ret) = 2

\* The messages in the order of the checks, and whether the check of each
\* fails on the address a.
Messages == <<MSG_PROVINCE, MSG_COUNTRY, MSG_LINE_DETAIL, MSG_POSTAL_CODE>>

Fails(a) ==
    << ~has_valid_province(a), ~is_valid_country(a.country),
       ~is_valid_line_detail(a.line_detail), ~is_valid_postal_code(a.postal_code) >>

\* C3: validate() returns the messages of the failing checks, each once, in
\* the order province, country, line detail, postal code.
C3_MessagesInCheckOrder ==
    acall.op = "validate" =>
        LET a == addresses[acall.arg]
            failing == SelectSeq(<<1, 2, 3, 4>>, LAMBDA k : Fails(a)[k])
        IN  /\ Len(acall.ret) = Len(failing)
            /\ \A k \in DOMAIN failing : acall.ret[k] = Messages[failing[k]]

\* All four checks fail.
C3_Witness ==
    /\ acall.op = "validate"
    /\ acall.ret = Messages

\* "Not available" in the place of an empty field.
Shown(s) == IF s = <<>> THEN NOT_AVAILABLE ELSE s

\* C4: Address display renders every field, the address type name included,
\* as "Not available" when it is empty.
C4_NoEmptyField ==
    acall.op = "Address_fmt" =>
        LET a == addresses[acall.arg]
        IN  acall.ret = Shown(a.address_type.name) \o COLON_SPACE
                \o Shown(LineDetail_fmt(a.line_detail))
                \o SPACE_DASH_SPACE \o Shown(a.city_or_town)
                \o SPACE_DASH_SPACE \o Shown(a.province_or_state.name)
                \o SPACE_DASH_SPACE \o Shown(a.postal_code)
                \o SPACE_DASH_SPACE \o Shown(a.country.name)

\* C8: has_valid_province() is false exactly when the country code is "ZA"
\* and the province name is empty, whatever the province code and the
\* country name are.
C8_ProvinceOnlyForZA ==
    acall.op = "has_valid_province" =>
        LET a == addresses[acall.arg]
        IN  /\ acall.ret = ~(a.country.code = ZA /\ a.province_or_state.name = <<>>)
            /\ \A pc \in OtherProvinceCodes, cn \in OtherCountryNames :
                  has_valid_province(
                      [a EXCEPT !.province_or_state.code = pc, !.country.name = cn])
                    = acall.ret

\* A ZA address without province name but with a province code and a country
\* name.
C8_Witness ==
    /\ acall.op = "has_valid_province"
    /\ acall.ret = FALSE
    /\ addresses[acall.arg].province_or_state.code # <<>>
    /\ addresses[acall.arg].country.name # <<>>

\* C9: LineDetail display renders "Not available" for two empty lines, the
\* filled line when one is empty, and "line1, line2" otherwise; it is "Not
\* available" exactly when is_valid_line_detail() is false, for lines that are
\* not that text themselves.
C9_LineDetailDisplay ==
    acall.op = "LineDetail_fmt" =>
        LET ld == addresses[acall.arg].line_detail
            e1 == ld.line1 = <<>>
            e2 == ld.line2 = <<>>
        IN  /\ (e1 /\ e2) => acall.ret = NOT_AVAILABLE
            /\ (e1 /\ ~e2) => acall.ret = ld.line2
            /\ (~e1 /\ e2) => acall.ret = ld.line1
            /\ (~e1 /\ ~e2) => acall.ret = ld.line1 \o COMMA_SPACE \o ld.line2
            /\ (ld.line1 # NOT_AVAILABLE /\ ld.line2 # NOT_AVAILABLE) =>
                  ((acall.ret = NOT_AVAILABLE) <=> ~is_valid_line_detail(ld))

\* Only line1 is empty.
C9_Witness ==
    /\ acall.op = "LineDetail_fmt"
    /\ addresses[acall.arg].line_detail.line1 = <<>>
    /\ acall.ret = LINE_2

AllDigits(s) == Len(s) > 0 /\ \A k \in DOMAIN s : Digits(s[k])

\* C10: is_valid_postal_code(s) is true exactly when s is not empty and all
\* its characters are digits, and validate() reports the postal code message
\* exactly for the other strings.
C10_PostalCodeAllDigits ==
    /\ acall.op = "is_valid_postal_code" =>
          acall.ret = AllDigits(addresses[acall.arg].postal_code)
    /\ acall.op = "validate" =>
          ((\E k \in DOMAIN acall.ret : acall.ret[k] = MSG_POSTAL_CODE)
              <=> ~AllDigits(addresses[acall.arg].postal_code))

\* A postal code that starts with a digit and ends with another character is
\* rejected.
C10_Witness ==
    /\ acall.op = "is_valid_postal_code"
    /\ Len(addresses[acall.arg].postal_code) = MaxPostalLen
    /\ Digits(addresses[acall.arg].postal_code[1])
    /\ acall.ret = FALSE

====
